---- MODULE Spec2Model ----
(***************************************************************************)
(* The metadata store of isisdl: DatabaseHelper (fileinfo, courseinfo) and *)
(* ConfigHelper (config) of src/isisdl/backend/database_helper.py, used by *)
(* several threads through the one class-level lock of SQLiteDatabase.     *)
(*                                                                         *)
(* A thread runs one operation at a time.  pc[t] is its position:          *)
(*   idle       outside every operation                                    *)
(*   skipped    inside set_throttle_rate(None), which takes no lock         *)
(*   waiting    (SpecLive only) an operation is called, the thread blocks  *)
(*              on "with lock:"                                            *)
(*   locked     inside "with lock:", before the statement                  *)
(*   executed   the statement has run (a writer has not committed yet)     *)
(*   committed  con.commit() has run                                       *)
(*   failed     the statement raised; the with-block is being left         *)
(*   dropped / between / relocked / created   the positions of             *)
(*              delete_config after its DROP                               *)
(*   done       (SpecUpsert only) the single call of the thread returned   *)
(*                                                                         *)
(* lock is SQLiteDatabase.lock (the thread holding it, NoThread when free),*)
(* op[t] the method thread t runs with its arguments, ret[t] what the      *)
(* method returns or raises.  tables is sqlite_master; fileinfo and        *)
(* courseinfo are the rows of these tables in rowid order, config the rows *)
(* (key, value) of config; pending holds the connections ("db" of          *)
(* DatabaseHelper, "cfg" of ConfigHelper) with an uncommitted write, and   *)
(* "cfg-begun" when ConfigHelper's connection has a transaction open that  *)
(* holds no write yet.                                                     *)
(***************************************************************************)
EXTENDS Integers, Sequences, FiniteSets, TLC

VARIABLES lock, pc, op, ret, tables, fileinfo, courseinfo, config, pending,
          lastUpsert, upsertOrder, replaced, registered, lastSet, sinceDrop,
          lockedUpsert, lockedSet,
          loading, environment, _globs,
          updater, invoked

storeVars == <<lock, pc, op, ret, tables, fileinfo, courseinfo, config, pending,
               lastUpsert, upsertOrder, replaced, registered, lastSet, sinceDrop,
               lockedUpsert, lockedSet>>

\* the load of src/isisdl/settings.py: loading is the position in the module
\* (start, defaults, configured, loaded), environment what the load depends on
\* (the platform, whether pytest is imported, the mapping parse_config_file
\* returns), _globs the module's globals
settingsVars == <<loading, environment, _globs>>

\* a run of an updater entry point (install_latest_version of backend/update.py
\* or main of bin/update.py): updater holds its position and its locals,
\* invoked the commands it has run with subprocess, in order
updateVars == <<updater, invoked>>

vars == <<storeVars, settingsVars, updateVars>>

----------------------------------------------------------------------------
(* Bounds of the model *)

NumThreads == 2
NumFileIds == 2

Threads == 1..NumThreads
NoThread == 0

FileIds == 1..NumFileIds
Names == {"slides.pdf", "notes.pdf"}
Checksums == {"deadbeef", "feedface", "cafebabe"}
Urls == {"https://isis/f"}
Times == {1500}                 \* datetime of the file, in milliseconds
CourseIds == {7}
Sizes == {1024}

\* PreMediaContainer objects handed to add_pre_container
Files == [name : Names, file_id : FileIds, url : Urls, time : Times,
          course_id : CourseIds, checksum : Checksums, size : Sizes]

NoFile == [name |-> "", file_id |-> 0, url |-> "", time |-> 0,
           course_id |-> 0, checksum |-> "", size |-> 0]

\* the config keys of the typed accessors
Keys == {"username", "clear_password", "encrypted_password", "filename_scheme",
         "throttle_rate", "update_policy", "telemetry", "other_files"}
\* the keys and values the model writes
WriteKeys == {"filename_scheme", "throttle_rate", "update_policy", "telemetry",
              "username"}
Values == {"", "2"}
Absent == "<absent>"

----------------------------------------------------------------------------
(* Python values an operation returns *)

NoRet == [kind |-> "void", str |-> "", num |-> 0, rows |-> <<>>]
PyNone == [kind |-> "None", str |-> "", num |-> 0, rows |-> <<>>]
PyStr(s) == [kind |-> "str", str |-> s, num |-> 0, rows |-> <<>>]
PyInt(n) == [kind |-> "int", str |-> "", num |-> n, rows |-> <<>>]
PyBool(b) == [kind |-> "bool", str |-> "", num |-> IF b THEN 1 ELSE 0, rows |-> <<>>]
PyRows(r) == [kind |-> "rows", str |-> "", num |-> 0, rows |-> r]
\* a defaultdict(set): a function from its keys to sets
PyDict(d) == [kind |-> "dict", str |-> "", num |-> 0, rows |-> <<d>>]
Raised(what) == [kind |-> "raise", str |-> what, num |-> 0, rows |-> <<>>]

\* x or y
PyOr(x, y) ==
    IF x.kind = "None" \/ (x.kind = "str" /\ x.str = "") THEN y ELSE x

\* int(s) of a decimal string
StrToInt(s) ==
    CASE s = "0" -> PyInt(0)
      [] s = "1" -> PyInt(1)
      [] s = "2" -> PyInt(2)
      [] OTHER -> Raised("ValueError")

----------------------------------------------------------------------------
(* Operations and their arguments *)

Op(name, file, key, val, id) ==
    [name |-> name, file |-> file, key |-> key, val |-> val, id |-> id]

NoOp == Op("", NoFile, "", "", 0)

\* Course objects handed to add_course
Courses == [name : {"Analysis I"}, id : CourseIds]

\* the courses and the file records of SpecCourse: two names and two ids of
\* courses, files of these courses and of a course that is never registered
CourseNames == {"Analysis I", "Algebra"}
RegisteredIds == {7, 8}
AllCourses == [name : CourseNames, id : RegisteredIds]
\* files that differ in their size only
SizedFiles == [name : {"slides.pdf"}, file_id : FileIds, url : Urls, time : Times,
               course_id : CourseIds, checksum : {"deadbeef"},
               size : {1024, 2048}]

CourseFiles == [name : {"slides.pdf"}, file_id : {1, 2}, url : Urls, time : Times,
                course_id : RegisteredIds \cup {9},
                checksum : {"deadbeef", "feedface"}, size : {1024}]

\* the typed getters of ConfigHelper and the key each reads
GetterKey ==
    [get_user |-> "username",
     get_clear_password |-> "clear_password",
     get_encrypted_password |-> "encrypted_password",
     get_filename_scheme |-> "filename_scheme",
     get_throttle_rate |-> "throttle_rate",
     get_update_policy |-> "update_policy",
     get_telemetry |-> "telemetry",
     get_other_files_in_working_location |-> "other_files"]

Getters == DOMAIN GetterKey
DefaultGetters == {"get_filename_scheme", "get_throttle_rate",
                   "get_update_policy", "get_telemetry"}

default_filename_scheme == PyStr("0")
default_throttle_rate == PyNone
default_update_policy == PyStr("0")
default_telemetry == PyStr("1")

----------------------------------------------------------------------------
(* The SQL statements *)

\* the row add_pre_container binds: time is int(file.time.timestamp())
ToRow(file) == [file EXCEPT !.time = file.time \div 1000]

NoRow == NoFile

RECURSIVE SeqFilter(_, _)
\* the rows of tbl, in order, whose file_id is not f
SeqFilter(tbl, f) ==
    IF tbl = <<>> THEN <<>>
    ELSE IF Head(tbl).file_id = f THEN SeqFilter(Tail(tbl), f)
         ELSE <<Head(tbl)>> \o SeqFilter(Tail(tbl), f)

\* mutant: INSERT OR IGNORE, the row already there is kept
InsertOrIgnoreFile(tbl, row) ==
    IF \E i \in 1..Len(tbl) : tbl[i].file_id = row.file_id THEN tbl
    ELSE Append(tbl, row)

\* mutant: the unique key is the checksum instead of the file_id
InsertOrReplaceByChecksum(tbl, row) ==
    Append(SelectSeq(tbl, LAMBDA r : r.checksum # row.checksum), row)

\* INSERT OR REPLACE INTO fileinfo: file_id is the primary key, a conflicting
\* row is deleted and the new row gets the next rowid
InsertOrReplaceFile(tbl, row) == Append(SeqFilter(tbl, row.file_id), row)

\* mutant: DELETE FROM fileinfo WHERE file_id = ? OR checksum = ?
DeleteFileOrChecksum(tbl, f, c) ==
    SelectSeq(tbl, LAMBDA r : r.file_id # f /\ r.checksum # c)

\* DELETE FROM fileinfo WHERE file_id = ?; the key of the call is the file_id
\* f, or it is the text c, which is the file_id of no row (f is 0 then)
DeleteFile(tbl, f, c) == SeqFilter(tbl, f)

RECURSIVE FetchLast(_, _, _)
\* mutant: the last matching row in rowid order
FetchLast(tbl, eq_name, eq_val) ==
    IF tbl = <<>> THEN <<>>
    ELSE IF tbl[Len(tbl)][eq_name] = eq_val THEN <<tbl[Len(tbl)]>>
         ELSE FetchLast(SubSeq(tbl, 1, Len(tbl) - 1), eq_name, eq_val)

RECURSIVE FetchOne(_, _, _)
\* SELECT * FROM tbl WHERE eq_name = eq_val  .fetchone(): the first matching row
\* in rowid order, <<>> when there is none
FetchOne(tbl, eq_name, eq_val) ==
    IF tbl = <<>> THEN <<>>
    ELSE IF Head(tbl)[eq_name] = eq_val THEN <<Head(tbl)>>
         ELSE FetchOne(Tail(tbl), eq_name, eq_val)

\* the Python value of a column
PyVal(attr, x) == IF attr \in {"name", "checksum", "url"} THEN PyStr(x) ELSE PyInt(x)

\* SELECT attr FROM table WHERE eq_name = ?  .fetchone(); None, or res[0]
_get_attr_by_equal(tbl, attr, eq_val, eq_name) ==
    LET res == FetchOne(tbl, eq_name, eq_val)
    IN  IF res = <<>> THEN PyNone ELSE PyVal(attr, res[1][attr])

\* mutant: INSERT OR REPLACE, a later registration overwrites the name
InsertOrReplaceCourse(tbl, row) ==
    Append(SelectSeq(tbl, LAMBDA r : r.id # row.id), row)

\* INSERT OR IGNORE INTO courseinfo: id is the primary key
InsertOrIgnoreCourse(tbl, row) ==
    IF \E i \in 1..Len(tbl) : tbl[i].id = row.id THEN tbl ELSE Append(tbl, row)

\* SELECT courseinfo.name, checksum from fileinfo INNER JOIN courseinfo
\* on fileinfo.course_id = courseinfo.id, collected by ret[course_name].add(checksum)
JoinChecksums(files, courses) ==
    LET pairs == {<<courses[j].name, files[i].checksum>> :
                    <<i, j>> \in {x \in (1..Len(files)) \X (1..Len(courses)) :
                                     files[x[1]].course_id = courses[x[2]].id}}
        names == {p[1] : p \in pairs}
    IN  [n \in names |-> {p[2] : p \in {q \in pairs : q[1] = n}}]

\* CREATE TABLE IF NOT EXISTS name
CreateTableIfNotExists(tbls, name) == tbls \cup {name}

\* mutant: CREATE TABLE name raises when the table exists
CreateTableRaisesIfExists(tbls, name) == name \in tbls

\* whether CREATE TABLE IF NOT EXISTS name raises: an existing table is no error
CreateTableRaises(tbls, name) == FALSE

\* SELECT name FROM sqlite_master, then SELECT * FROM each table
SelectAllTables(tbls, files, courses, cfg) ==
    (IF "fileinfo" \in tbls THEN <<files>> ELSE <<>>)
    \o (IF "courseinfo" \in tbls THEN <<courses>> ELSE <<>>)
    \o (IF "config" \in tbls THEN <<cfg>> ELSE <<>>)

\* mutant: INSERT OR IGNORE, the value already stored is kept
InsertOrIgnoreConfig(cfg, k, v) ==
    IF \E r \in cfg : r[1] = k THEN cfg ELSE cfg \cup {<<k, v>>}

\* INSERT OR REPLACE INTO config: key is unique
InsertOrReplaceConfig(cfg, k, v) == {r \in cfg : r[1] # k} \cup {<<k, v>>}

\* mutant: res[0] without the test for None
SelectValueUnchecked(cfg, k) ==
    LET res == {r \in cfg : r[1] = k}
    IN  IF res = {} THEN Raised("TypeError") ELSE PyStr((CHOOSE r \in res : TRUE)[2])

\* SELECT value FROM config where key = ?  .fetchone(); None, or res[0]
SelectValue(cfg, k) ==
    LET res == {r \in cfg : r[1] = k}
    IN  IF res = {} THEN PyNone ELSE PyStr((CHOOSE r \in res : TRUE)[2])

\* mutant: the rows survive the DROP
DropKeepsRows(cfg) == cfg

\* DROP table config
DropConfig(cfg) == {}

\* what a typed getter makes of the result of _get
TypedResult(name, got) ==
    CASE name = "get_filename_scheme" -> PyOr(got, default_filename_scheme)
      [] name = "get_update_policy" -> PyOr(got, default_update_policy)
      [] name = "get_telemetry" -> PyOr(got, default_telemetry)
      [] name = "get_throttle_rate" ->
            LET value == PyOr(got, default_throttle_rate)
            IN  IF value.kind # "None" THEN StrToInt(value.str) ELSE PyNone
      [] OTHER -> got

----------------------------------------------------------------------------
(* settings.py: the values of the module's globals *)

Undefined == [kind |-> "undefined", path |-> <<>>, num |-> 0]
PathVal(p) == [kind |-> "path", path |-> p, num |-> 0]
NumVal(n) == [kind |-> "num", path |-> <<>>, num |-> n]

\* os.path.expanduser("~") and os.path.join; a path is the sequence of its parts
Home == <<"~">>
Join(a, b) == a \o <<b>>

\* the names a global can have: the settings of the model and a name that no
\* line of the module assigns
GlobalNames == {"working_dir_location", "status_time", "_working_dir_location",
                "_status_time", "no_such_setting"}

\* what is at config_file_location: no file, a file that cannot be opened, a
\* file without a document, a document that is a list, a text that is no YAML,
\* a document that is a mapping
FileStates == {"missing", "unreadable", "empty", "not_mapping", "malformed",
               "mapping"}

\* the keys and values written in the file (Undefined: the key is not in it)
ConfigFiles ==
    [working_dir_location : {Undefined, PathVal(Join(Home, "isisdl_downloads"))},
     status_time : {Undefined, NumVal(2000)},
     _status_time : {Undefined, NumVal(5000)},
     no_such_setting : {Undefined, NumVal(1)}]

Environments ==
    [is_windows : BOOLEAN, pytest : BOOLEAN, file : FileStates, data : ConfigFiles]

\* a run of the program on Linux, without pytest and without a config file
Production ==
    [is_windows |-> FALSE, pytest |-> FALSE, file |-> "missing",
     data |-> [working_dir_location |-> Undefined, status_time |-> Undefined,
               _status_time |-> Undefined, no_such_setting |-> Undefined]]

\* the assignments of the module before the config file is read; times are in
\* milliseconds
Defaults(env) ==
    [g \in GlobalNames |->
        IF g = "working_dir_location" THEN PathVal(Join(Home, "isisdl"))
        ELSE IF g = "status_time"
             THEN NumVal(IF env.is_windows THEN 750 ELSE 250)
             ELSE Undefined]

\* defaultdict(lambda: None): a mapping without keys
EmptyMapping == [k \in DOMAIN Production.data |-> Undefined]

\* open(config_file_location) raises OSError
OpenRaises(file) == file \in {"missing", "unreadable"}

\* safe_load(f): raises YAMLError, or returns None, a list or a dict
safe_load(env) ==
    CASE env.file = "malformed" -> [kind |-> "raised", dat |-> EmptyMapping]
      [] env.file = "empty" -> [kind |-> "None", dat |-> EmptyMapping]
      [] env.file = "not_mapping" -> [kind |-> "list", dat |-> env.data]
      [] OTHER -> [kind |-> "dict", dat |-> env.data]

\* parse_config_file: the mapping of the file, and an empty one after an
\* OSError, after a YAMLError, for no document and for a document that is no dict
parse_config_file(env) ==
    IF OpenRaises(env.file) THEN EmptyMapping
    ELSE LET _dat == safe_load(env)
         IN  IF _dat.kind = "raised" THEN EmptyMapping
             ELSE IF _dat.kind = "None" THEN EmptyMapping
             ELSE IF _dat.kind # "dict" THEN EmptyMapping
             ELSE _dat.dat

\* mutant: the override loop without its test, every key becomes a global
ApplyEveryKey(env, globs) ==
    LET data == parse_config_file(env)
    IN  [g \in GlobalNames |->
            IF g \in DOMAIN data /\ data[g] # Undefined THEN data[g] ELSE globs[g]]

\* not on Windows, every key of the config file that is a global by now
\* overrides it
ApplyConfigFile(env, globs) ==
    IF env.is_windows THEN globs
    ELSE LET data == parse_config_file(env)
         IN  [g \in GlobalNames |->
                IF /\ g \in DOMAIN data
                   /\ data[g] # Undefined
                   /\ globs[g] # Undefined
                THEN data[g] ELSE globs[g]]

\* under pytest the production values are kept in the names with an underscore
\* and the working directory and status_time are replaced
TestingBlock(env, globs) ==
    IF env.pytest
    THEN [g \in GlobalNames |->
            IF g = "_working_dir_location" THEN globs["working_dir_location"]
            ELSE IF g = "_status_time" THEN globs["status_time"]
            ELSE IF g = "working_dir_location"
                 THEN PathVal(Join(Home, "testisisdl"))
                 ELSE IF g = "status_time" THEN NumVal(1000000000)
                      ELSE globs[g]]
    ELSE globs

LoadStep(from, to, globs) ==
    /\ loading = from
    /\ loading' = to
    /\ _globs' = globs
    /\ UNCHANGED <<environment, storeVars, updateVars>>

assign_defaults == LoadStep("start", "defaults", Defaults(environment))

apply_config_file ==
    LoadStep("defaults", "configured", ApplyConfigFile(environment, _globs))

testing_block ==
    LoadStep("configured", "loaded", TestingBlock(environment, _globs))

----------------------------------------------------------------------------
(* backend/update.py and bin/update.py: the updater *)

\* version texts as sequences of character codes ("." is 46, "0" is 48)
Version_1_9 == <<49, 46, 57>>
Version_1_10 == <<49, 46, 49, 48>>
Version_2_0 == <<50, 46, 48>>
Versions == {Version_1_9, Version_1_10, Version_2_0}

\* no version could be obtained
NoVersion == <<>>

\* the update policies a store or the config object can hold
PolicyValues == {"", "0", "1", "2"}

\* comparison of two str, as main compares versions
RECURSIVE StrGreater(_, _)
StrGreater(a, b) ==
    IF a = <<>> THEN FALSE
    ELSE IF b = <<>> THEN TRUE
    ELSE IF Head(a) # Head(b) THEN Head(a) > Head(b)
    ELSE StrGreater(Tail(a), Tail(b))

\* packaging.version.parse: the release numbers of a version text
RECURSIVE ParseFrom(_, _)
ParseFrom(text, n) ==
    IF text = <<>> THEN <<n>>
    ELSE IF Head(text) = 46 THEN <<n>> \o ParseFrom(Tail(text), 0)
    ELSE ParseFrom(Tail(text), 10 * n + (Head(text) - 48))

VersionParse(text) == ParseFrom(text, 0)

\* comparison of two Version objects: release numbers, missing ones are 0
RECURSIVE VersionGreater(_, _)
VersionGreater(a, b) ==
    IF a = <<>> /\ b = <<>> THEN FALSE
    ELSE LET x == IF a = <<>> THEN 0 ELSE Head(a)
             y == IF b = <<>> THEN 0 ELSE Head(b)
         IN  IF x # y THEN x > y
             ELSE VersionGreater(IF a = <<>> THEN a ELSE Tail(a),
                                 IF b = <<>> THEN b ELSE Tail(b))

\* the git clone of both entry points, followed by the pip install of the clone
\* when subprocess.check_call did not raise
CloneAndInstall(clone_ok) ==
    IF clone_ok THEN <<"git clone", "pip install ./isisdl">> ELSE <<"git clone">>

\* mutant: main keeps the policy that get_update_policy returned
main_keeps_policy(got) == got

\* main: update_policy = config_helper.get_update_policy(); update_policy = "2"
main_update_policy(got) == "2"

\* the commands main runs after it has read the policy
main_commands(policy, github, pypi, current, clone_ok) ==
    IF policy = "0" THEN <<>>
    ELSE IF ~StrGreater(github, current) THEN <<>>
    ELSE IF policy = "1" THEN <<>>
    ELSE IF policy = "2"
         THEN IF pypi = github THEN <<"pip install isisdl">>
              ELSE CloneAndInstall(clone_ok)
         ELSE <<>>

\* the commands install_latest_version runs after it has read the policy
install_commands(policy, github, pypi, current, clone_ok) ==
    LET correct_version == IF policy = "1" THEN github ELSE pypi
    IN  IF policy = "0" THEN <<>>
        ELSE IF correct_version = NoVersion THEN <<>>
        ELSE IF ~VersionGreater(VersionParse(correct_version), VersionParse(current))
             THEN <<>>
        ELSE IF policy = "1" THEN CloneAndInstall(clone_ok)
        ELSE IF policy = "2" THEN <<"pip install --upgrade isisdl">>
        ELSE <<>>

NoUpdate ==
    [entry |-> "", at |-> "idle", github |-> NoVersion, pypi |-> NoVersion,
     current |-> NoVersion, got |-> "", update_policy |-> ""]

InitUpdate == updater = NoUpdate /\ invoked = <<>>

\* check_github_for_version and check_pypi_for_version: what the network gives;
\* in main a version that cannot be obtained fails an assert
check_versions ==
    /\ updater.at = "idle"
    /\ \E e \in {"main", "install_latest_version"},
          g \in Versions \cup {NoVersion}, p \in Versions \cup {NoVersion},
          c \in Versions :
          updater' = [updater EXCEPT
                         !.entry = e, !.github = g, !.pypi = p, !.current = c,
                         !.at = IF e = "main" /\ NoVersion \in {g, p}
                                THEN "raised" ELSE "versions"]
    /\ UNCHANGED <<invoked, storeVars, settingsVars>>

\* main reads the policy with get_update_policy and overwrites it;
\* install_latest_version takes config.update_policy, whatever it is
read_policy ==
    /\ updater.at = "versions"
    /\ IF updater.entry = "main"
       THEN LET got == TypedResult("get_update_policy",
                                   SelectValue(config, "update_policy")).str
            IN  updater' = [updater EXCEPT !.at = "policy", !.got = got,
                               !.update_policy = main_update_policy(got)]
       ELSE \E got \in PolicyValues :
               updater' = [updater EXCEPT !.at = "policy", !.got = got,
                              !.update_policy = got]
    /\ UNCHANGED <<invoked, storeVars, settingsVars>>

\* the rest of the entry point: the commands it runs, then it returns, or it
\* raises CalledProcessError when the clone fails
run_commands ==
    /\ updater.at = "policy"
    /\ \E clone_ok \in BOOLEAN :
          /\ invoked' =
                IF updater.entry = "main"
                THEN main_commands(updater.update_policy, updater.github,
                                   updater.pypi, updater.current, clone_ok)
                ELSE install_commands(updater.update_policy, updater.github,
                                      updater.pypi, updater.current, clone_ok)
          /\ updater' = [updater EXCEPT
                            !.at = IF invoked' = <<"git clone">> THEN "raised"
                                   ELSE "returned"]
    /\ UNCHANGED <<storeVars, settingsVars>>

----------------------------------------------------------------------------
(* The lock *)

\* mutant: the lock is taken without waiting for it to be free
LockAcquireNoWait(t) == lock' = t

\* with lock: (threading.Lock, blocking)
LockAcquire(t) == lock = NoThread /\ lock' = t
\* mutant: leaving the with-block without releasing the lock
LockKept(t) == lock' = lock

LockRelease(t) == lock' = NoThread

----------------------------------------------------------------------------

InitStore ==
    /\ lock = NoThread
    /\ pc = [t \in Threads |-> "idle"]
    /\ op = [t \in Threads |-> NoOp]
    /\ ret = [t \in Threads |-> NoRet]
    /\ tables = {"fileinfo", "courseinfo", "config"}
    /\ fileinfo = <<>>
    /\ courseinfo = <<>>
    /\ config = {}
    /\ pending = {}
    /\ lastUpsert = [f \in FileIds |-> NoRow]
    /\ lastSet = [k \in Keys |-> Absent]
    /\ upsertOrder = <<>>
    /\ replaced = NoRow
    /\ registered = [c \in RegisteredIds |-> Absent]
    /\ sinceDrop = [t \in Threads |-> "-"]
    /\ lockedUpsert = [f \in FileIds |-> NoRow]
    /\ lockedSet = [k \in Keys |-> Absent]

\* the stores are used by a program that has loaded its settings
Init ==
    /\ InitStore
    /\ InitUpdate
    /\ loading = "loaded"
    /\ environment = Production
    /\ _globs = TestingBlock(Production,
                    ApplyConfigFile(Production, Defaults(Production)))

\* History variables (not program state):
\*   lastUpsert[f]  the record of the latest add_pre_container for file_id f,
\*                  NoRow when there was none since the last delete of f
\*   upsertOrder    the file_ids of lastUpsert, the most recent upsert last
\*   replaced       inside add_pre_container: the record its statement replaced
\*   registered[c]  the name of the first add_course with course_id c
\*   lastSet[k]     the value of the latest _set of key k since the last DROP
\*   lockedUpsert[f]  the record of the add_pre_container for file_id f that
\*                  acquired the lock last, NoRow when there was none since the
\*                  last delete of f
\*   lockedSet[k]   the value of the _set of key k that acquired the lock last,
\*                  Absent when none wrote since the last DROP
\*   sinceDrop[t]   inside delete_config after its DROP: "empty" or "rows" (what
\*                  the dropped table held) while no _set ran since, else "written"
RECURSIVE Without(_, _)
Without(seq, x) ==
    IF seq = <<>> THEN <<>>
    ELSE IF Head(seq) = x THEN Without(Tail(seq), x)
         ELSE <<Head(seq)>> \o Without(Tail(seq), x)

fileVars == <<fileinfo, courseinfo, lastUpsert, upsertOrder, replaced, registered,
              lockedUpsert>>
cfgVars == <<tables, config, lastSet, sinceDrop, lockedSet>>

Goto(t, p) == pc' = [pc EXCEPT ![t] = p]
Result(t, r) == ret' = [ret EXCEPT ![t] = r]

\* an INSERT or DELETE on connection c: sqlite3 begins a transaction before it
Written(p, c) == (IF c = "cfg" THEN p \ {"cfg-begun"} ELSE p) \cup {c}

\* a CREATE or DROP on ConfigHelper's connection: sqlite3 begins no transaction
\* for it, the statement is committed at once unless a transaction is open
Ddl(p) == IF p \cap {"cfg", "cfg-begun"} = {} THEN p ELSE Written(p, "cfg")

\* an INSERT on ConfigHelper's connection that raises: with the statement in the
\* statement cache of sqlite3 the transaction has been begun and stays open
Begun(p, cached) == IF cached /\ "cfg" \notin p THEN p \cup {"cfg-begun"} ELSE p

\* con.commit() on connection c
Committed(p, c) == IF c = "cfg" THEN p \ {"cfg", "cfg-begun"} ELSE p \ {c}

\* entering the with-block of operation o
Enter(t, o) ==
    /\ pc[t] \in {"idle", "waiting"}
    /\ LockAcquire(t)
    /\ Goto(t, "locked")
    /\ op' = [op EXCEPT ![t] = o]
    /\ lockedUpsert' = IF o.name = "add_pre_container"
                       THEN [lockedUpsert EXCEPT ![o.file.file_id] = o.file]
                       ELSE lockedUpsert
    /\ lockedSet' = IF o.name = "_set" THEN [lockedSet EXCEPT ![o.key] = o.val]
                    ELSE lockedSet
    /\ UNCHANGED <<settingsVars, updateVars, ret, pending, fileinfo, courseinfo, lastUpsert, upsertOrder,
                   replaced, registered, tables, config, lastSet, sinceDrop>>

\* con.commit() of connection c
Commit(t, c) ==
    /\ pc[t] = "executed"
    /\ pending' = Committed(pending, c)
    /\ Goto(t, "committed")
    /\ UNCHANGED <<settingsVars, updateVars, lock, op, ret, fileVars, cfgVars>>

\* leaving the with-block and returning (p is where the thread goes on)
Leave(t, from, p) ==
    /\ pc[t] \in from
    /\ LockRelease(t)
    /\ Goto(t, p)
    /\ op' = [op EXCEPT ![t] = IF p = "idle" THEN NoOp ELSE @]
    /\ ret' = [ret EXCEPT ![t] = IF p = "idle" THEN NoRet ELSE @]
    /\ replaced' = NoRow
    /\ sinceDrop' = [sinceDrop EXCEPT ![t] = IF p = "idle" THEN "-" ELSE @]
    /\ UNCHANGED <<settingsVars, updateVars, pending, fileinfo, courseinfo, lastUpsert, upsertOrder,
                   registered, tables, config, lastSet, lockedUpsert, lockedSet>>

At(t, p, name) == pc[t] = p /\ op[t].name = name

\* the statement raises sqlite3.OperationalError
Raise(t) == Result(t, Raised("OperationalError")) /\ Goto(t, "failed")

----------------------------------------------------------------------------
(* DatabaseHelper *)

\* mutant: add_pre_container reports whether it replaced a row
ReturnsWhetherReplaced(prior) == PyBool(prior # NoRow)

\* add_pre_container has no return statement: the call returns None, whatever
\* record its INSERT OR REPLACE found
add_pre_container_return(prior) == PyNone

add_pre_container_execute(t) ==
    /\ At(t, "locked", "add_pre_container")
    /\ fileinfo' = InsertOrReplaceFile(fileinfo, ToRow(op[t].file))
    /\ lastUpsert' = [lastUpsert EXCEPT ![op[t].file.file_id] = op[t].file]
    /\ upsertOrder' = Append(Without(upsertOrder, op[t].file.file_id),
                             op[t].file.file_id)
    /\ replaced' = lastUpsert[op[t].file.file_id]
    /\ pending' = Written(pending, "db")
    /\ Result(t, add_pre_container_return(lastUpsert[op[t].file.file_id]))
    /\ Goto(t, "executed")
    /\ UNCHANGED <<settingsVars, updateVars, lock, op, courseinfo, registered, lockedUpsert, cfgVars>>

add_pre_container(t, FS) ==
    \/ \E file \in FS : Enter(t, Op("add_pre_container", file, "", "", 0))
    \/ add_pre_container_execute(t)
    \/ At(t, "executed", "add_pre_container") /\ Commit(t, "db")
    \/ At(t, "committed", "add_pre_container") /\ Leave(t, {"committed"}, "idle")

delete_by_file_id(t, IDS) ==
    \/ \E f \in IDS : Enter(t, Op("delete_by_file_id", NoFile, "", "", f))
    \/ /\ At(t, "locked", "delete_by_file_id")
       /\ fileinfo' = DeleteFile(fileinfo, op[t].id, op[t].key)
       /\ lastUpsert' = [f \in FileIds |->
                            IF f = op[t].id THEN NoRow ELSE lastUpsert[f]]
       /\ upsertOrder' = Without(upsertOrder, op[t].id)
       /\ lockedUpsert' = [f \in FileIds |->
                              IF f = op[t].id THEN NoRow ELSE lockedUpsert[f]]
       /\ pending' = Written(pending, "db")
       /\ Goto(t, "executed")
       /\ UNCHANGED <<settingsVars, updateVars, lock, op, ret, courseinfo, replaced, registered, cfgVars>>
    \/ At(t, "executed", "delete_by_file_id") /\ Commit(t, "db")
    \/ At(t, "committed", "delete_by_file_id") /\ Leave(t, {"committed"}, "idle")

\* delete_by_file_id called with a checksum as its key
delete_by_file_id_checksum(t, CS) ==
    \E c \in CS : Enter(t, Op("delete_by_file_id", NoFile, c, "", 0))

add_course(t, CS) ==
    \/ \E c \in CS : Enter(t, Op("add_course", NoFile, c.name, "", c.id))
    \/ /\ At(t, "locked", "add_course")
       /\ courseinfo' = InsertOrIgnoreCourse(courseinfo,
                            [name |-> op[t].key, id |-> op[t].id])
       /\ registered' = [registered EXCEPT ![op[t].id] =
                            IF @ = Absent THEN op[t].key ELSE @]
       /\ pending' = Written(pending, "db")
       /\ Goto(t, "executed")
       /\ UNCHANGED <<settingsVars, updateVars, lock, op, ret, fileinfo, lastUpsert, upsertOrder, replaced,
                      lockedUpsert, cfgVars>>
    \/ At(t, "executed", "add_course") /\ Commit(t, "db")
    \/ At(t, "committed", "add_course") /\ Leave(t, {"committed"}, "idle")

\* mutant: a lookup that removes the file records it has read
LookupConsuming(t, name, result) ==
    \/ /\ At(t, "locked", name)
       /\ Result(t, result)
       /\ Goto(t, "executed")
       /\ fileinfo' = <<>>
       /\ UNCHANGED <<settingsVars, updateVars, lock, op, pending, courseinfo, lastUpsert, upsertOrder,
                      replaced, registered, lockedUpsert, cfgVars>>
    \/ At(t, "executed", name) /\ Leave(t, {"executed"}, "idle")

\* a lookup: the statement runs under the lock, the result is returned after it
Lookup(t, name, result) ==
    \/ /\ At(t, "locked", name)
       /\ Result(t, result)
       /\ Goto(t, "executed")
       /\ UNCHANGED <<settingsVars, updateVars, lock, op, pending, fileVars, cfgVars>>
    \/ At(t, "executed", name) /\ Leave(t, {"executed"}, "idle")

get_name_by_checksum(t, CS) ==
    \/ \E c \in CS : Enter(t, Op("get_name_by_checksum", NoFile, c, "", 0))
    \/ Lookup(t, "get_name_by_checksum",
              _get_attr_by_equal(fileinfo, "name", op[t].key, "checksum"))

get_course_id_by_name(t, NS) ==
    \/ \E n \in NS : Enter(t, Op("get_course_id_by_name", NoFile, n, "", 0))
    \/ Lookup(t, "get_course_id_by_name",
              _get_attr_by_equal(courseinfo, "id", op[t].key, "name"))

get_size_from_file_id(t, IDS) ==
    \/ \E f \in IDS : Enter(t, Op("get_size_from_file_id", NoFile, "", "", f))
    \/ Lookup(t, "get_size_from_file_id",
              _get_attr_by_equal(fileinfo, "size", op[t].id, "file_id"))

get_course_name_and_ids(t) ==
    \/ Enter(t, Op("get_course_name_and_ids", NoFile, "", "", 0))
    \/ Lookup(t, "get_course_name_and_ids", PyRows(courseinfo))

get_checksums_per_course(t) ==
    \/ Enter(t, Op("get_checksums_per_course", NoFile, "", "", 0))
    \/ Lookup(t, "get_checksums_per_course",
              PyDict(JoinChecksums(fileinfo, courseinfo)))

get_state(t) ==
    \/ Enter(t, Op("get_state", NoFile, "", "", 0))
    \/ Lookup(t, "get_state",
              PyRows(SelectAllTables(tables, fileinfo, courseinfo, config)))

DatabaseHelper_create_default_tables(t) ==
    \/ Enter(t, Op("DatabaseHelper.create_default_tables", NoFile, "", "", 0))
    \/ /\ At(t, "locked", "DatabaseHelper.create_default_tables")
       /\ IF CreateTableRaises(tables, "fileinfo")
          THEN Raise(t) /\ UNCHANGED tables
          ELSE IF CreateTableRaises(CreateTableIfNotExists(tables, "fileinfo"),
                                    "courseinfo")
               THEN /\ tables' = CreateTableIfNotExists(tables, "fileinfo")
                    /\ Raise(t)
               ELSE /\ tables' = CreateTableIfNotExists(
                                     CreateTableIfNotExists(tables, "fileinfo"),
                                     "courseinfo")
                    /\ Goto(t, "executed")
                    /\ UNCHANGED ret
       /\ UNCHANGED <<settingsVars, updateVars, lock, op, pending, fileVars, config, lastSet, sinceDrop,
                      lockedSet>>
    \/ /\ pc[t] \in {"executed", "failed"}
       /\ op[t].name = "DatabaseHelper.create_default_tables"
       /\ Leave(t, {"executed", "failed"}, "idle")

----------------------------------------------------------------------------
(* ConfigHelper *)

\* the statement of ConfigHelper.create_default_tables; p is the next position
CreateConfig(t, p) ==
    IF CreateTableRaises(tables, "config")
    THEN Raise(t) /\ UNCHANGED <<tables, pending>>
    ELSE /\ tables' = CreateTableIfNotExists(tables, "config")
         /\ pending' = IF "config" \in tables THEN pending ELSE Ddl(pending)
         /\ Goto(t, p)
         /\ UNCHANGED ret

ConfigHelper_create_default_tables(t) ==
    \/ Enter(t, Op("ConfigHelper.create_default_tables", NoFile, "", "", 0))
    \/ /\ At(t, "locked", "ConfigHelper.create_default_tables")
       /\ CreateConfig(t, "executed")
       /\ UNCHANGED <<settingsVars, updateVars, lock, op, fileVars, config, lastSet, sinceDrop, lockedSet>>
    \/ /\ pc[t] \in {"executed", "failed"}
       /\ op[t].name = "ConfigHelper.create_default_tables"
       /\ Leave(t, {"executed", "failed"}, "idle")

\* the statement of an operation on config raises when the table is missing
NoSuchTable(t) ==
    /\ "config" \notin tables
    /\ Result(t, Raised("OperationalError"))
    /\ Goto(t, "failed")
    /\ UNCHANGED <<settingsVars, updateVars, lock, op, pending, fileVars, cfgVars>>

_set(t, KS, VS) ==
    \/ \E k \in KS, v \in VS : Enter(t, Op("_set", NoFile, k, v, 0))
    \/ /\ At(t, "locked", "_set")
       /\ IF "config" \in tables
          THEN /\ config' = InsertOrReplaceConfig(config, op[t].key, op[t].val)
               /\ lastSet' = [lastSet EXCEPT ![op[t].key] = op[t].val]
               /\ sinceDrop' = [u \in Threads |->
                                   IF sinceDrop[u] = "-" THEN "-" ELSE "written"]
               /\ pending' = Written(pending, "cfg")
               /\ Goto(t, "executed")
               /\ UNCHANGED <<ret, lockedSet>>
          ELSE \* the INSERT raises; when sqlite3 had the statement prepared
               \* (cached), it has already begun the transaction, which stays open
               /\ Raise(t)
               /\ \E cached \in BOOLEAN : pending' = Begun(pending, cached)
               /\ lockedSet' = [lockedSet EXCEPT ![op[t].key] = Absent]
               /\ UNCHANGED <<config, lastSet, sinceDrop>>
       /\ UNCHANGED <<settingsVars, updateVars, lock, op, tables, fileVars>>
    \/ At(t, "executed", "_set") /\ Commit(t, "cfg")
    \/ /\ pc[t] \in {"committed", "failed"}
       /\ op[t].name = "_set"
       /\ Leave(t, {"committed", "failed"}, "idle")

\* the argument None of set_throttle_rate
NoneArg == "<None>"

\* mutant: set_throttle_rate without its test, None is written like a value
AlwaysWritten(num) == TRUE

\* set_throttle_rate: if num is not None
is_not_None(num) == num # NoneArg

\* set_throttle_rate(num): _set("throttle_rate", num) unless num is None (the
\* other steps of the call are those of _set)
set_throttle_rate(t, NS) ==
    \/ \E num \in NS :
          IF is_not_None(num)
          THEN Enter(t, Op("_set", NoFile, "throttle_rate", num, 0))
          ELSE /\ pc[t] = "idle"
               /\ Goto(t, "skipped")
               /\ op' = [op EXCEPT ![t] =
                             Op("set_throttle_rate", NoFile, "throttle_rate", num, 0)]
               /\ UNCHANGED <<settingsVars, updateVars, lock, ret, pending,
                              fileVars, cfgVars>>
    \/ /\ At(t, "skipped", "set_throttle_rate")
       /\ Goto(t, "idle")
       /\ op' = [op EXCEPT ![t] = NoOp]
       /\ UNCHANGED <<settingsVars, updateVars, lock, ret, pending, fileVars,
                      cfgVars>>

\* _get(key), called directly or by a typed getter
GetCall(t, name, key) ==
    \/ Enter(t, Op(name, NoFile, key, "", 0))
    \/ /\ At(t, "locked", name)
       /\ "config" \in tables
       /\ Result(t, TypedResult(name, SelectValue(config, op[t].key)))
       /\ Goto(t, "executed")
       /\ UNCHANGED <<settingsVars, updateVars, lock, op, pending, fileVars, cfgVars>>
    \/ At(t, "locked", name) /\ NoSuchTable(t)
    \/ pc[t] \in {"executed", "failed"} /\ op[t].name = name
          /\ Leave(t, {"executed", "failed"}, "idle")

_get(t, KS) == \E k \in KS : GetCall(t, "_get", k)

typed_getter(t) == \E g \in Getters : GetCall(t, g, GetterKey[g])

delete_config(t) ==
    \/ Enter(t, Op("delete_config", NoFile, "", "", 0))
    \/ /\ At(t, "locked", "delete_config")
       /\ "config" \in tables
       /\ tables' = tables \ {"config"}
       /\ config' = DropConfig(config)
       /\ lastSet' = [k \in Keys |-> Absent]
       /\ sinceDrop' = [sinceDrop EXCEPT ![t] =
                           IF config = {} THEN "empty" ELSE "rows"]
       /\ lockedSet' = [k \in Keys |-> Absent]
       /\ pending' = Ddl(pending)
       /\ Goto(t, "dropped")
       /\ UNCHANGED <<settingsVars, updateVars, lock, op, ret, fileVars>>
    \/ At(t, "locked", "delete_config") /\ NoSuchTable(t)
    \/ At(t, "failed", "delete_config") /\ Leave(t, {"failed"}, "idle")
    \/ At(t, "dropped", "delete_config") /\ Leave(t, {"dropped"}, "between")
    \/ /\ At(t, "between", "delete_config")
       /\ LockAcquire(t)
       /\ Goto(t, "relocked")
       /\ UNCHANGED <<settingsVars, updateVars, op, ret, pending, fileVars, cfgVars>>
    \/ /\ At(t, "relocked", "delete_config")
       /\ CreateConfig(t, "created")
       /\ UNCHANGED <<settingsVars, updateVars, lock, op, fileVars, config, lastSet, sinceDrop, lockedSet>>
    \/ At(t, "created", "delete_config") /\ Leave(t, {"created"}, "idle")

----------------------------------------------------------------------------
(* Specifications *)

\* the operations of DatabaseHelper on every file record of the model
NextFile ==
    \E t \in Threads :
        \/ add_pre_container(t, Files)
        \/ delete_by_file_id(t, FileIds)
        \/ delete_by_file_id_checksum(t, Checksums)
        \/ get_name_by_checksum(t, Checksums)
        \/ get_size_from_file_id(t, FileIds)

SpecFile == Init /\ [][NextFile]_vars

\* the operations of ConfigHelper on every key the model writes
NextConfig ==
    \E t \in Threads :
        \/ _set(t, WriteKeys, Values)
        \/ _get(t, Keys)
        \/ typed_getter(t)
        \/ delete_config(t)
        \/ ConfigHelper_create_default_tables(t)

SpecConfig == Init /\ [][NextConfig]_vars

\* the operations of DatabaseHelper on courses and the files of courses
NextCourse ==
    \E t \in Threads :
        \/ add_course(t, AllCourses)
        \/ add_pre_container(t, CourseFiles)
        \/ delete_by_file_id(t, {1, 2})
        \/ get_course_id_by_name(t, CourseNames)
        \/ get_course_name_and_ids(t)
        \/ get_checksums_per_course(t)

SpecCourse == Init /\ [][NextCourse]_vars

\* every thread upserts one record, all with different file_ids (there are at
\* least as many file_ids as threads)
upsert_once(t) ==
    \/ \E file \in Files :
          /\ \A u \in Threads \ {t} : op[u].file.file_id # file.file_id
          /\ Enter(t, Op("add_pre_container", file, "", "", 0))
    \/ add_pre_container_execute(t)
    \/ At(t, "executed", "add_pre_container") /\ Commit(t, "db")
    \/ At(t, "committed", "add_pre_container") /\ Leave(t, {"committed"}, "done")

NextUpsert == \E t \in Threads : upsert_once(t)

SpecUpsert == Init /\ [][NextUpsert]_vars

\* upserts, deletes and size lookups of files of several sizes
NextSize ==
    \E t \in Threads :
        \/ add_pre_container(t, SizedFiles)
        \/ delete_by_file_id(t, FileIds)
        \/ get_size_from_file_id(t, FileIds)

SpecSize == Init /\ [][NextSize]_vars

\* concurrent writers of one file_id and of one config key
SameKeyFiles == {f \in Files : f.file_id = 1}

NextWriters ==
    \E t \in Threads :
        \/ add_pre_container(t, SameKeyFiles)
        \/ _set(t, {"update_policy"}, Values)

SpecWriters == Init /\ [][NextWriters]_vars

\* the module is loaded before any store is used
InitSettings ==
    /\ InitStore
    /\ InitUpdate
    /\ loading = "start"
    /\ environment \in Environments
    /\ _globs = [g \in GlobalNames |-> Undefined]

\* the load of the settings module in every environment of the model
NextSettings == assign_defaults \/ apply_config_file \/ testing_block

SpecSettings == InitSettings /\ [][NextSettings]_vars

\* every operation of both classes on one record, one course and one key;
\* a thread either gets the lock as it calls or waits for it first
LiveFiles ==
    {f \in Files : f.file_id = 1 /\ f.name = "slides.pdf" /\ f.checksum = "deadbeef"}

call(t) ==
    /\ pc[t] = "idle"
    /\ Goto(t, "waiting")
    /\ UNCHANGED <<settingsVars, updateVars, lock, op, ret, pending, fileVars, cfgVars>>

ThreadLive(t) ==
    \/ call(t)
    \/ add_pre_container(t, LiveFiles)
    \/ delete_by_file_id(t, {1})
    \/ add_course(t, Courses)
    \/ get_name_by_checksum(t, {"deadbeef"})
    \/ get_course_id_by_name(t, {c.name : c \in Courses})
    \/ get_checksums_per_course(t)
    \/ get_size_from_file_id(t, {1})
    \/ get_course_name_and_ids(t)
    \/ get_state(t)
    \/ DatabaseHelper_create_default_tables(t)
    \/ _set(t, {"update_policy"}, {"2"})
    \/ _get(t, {"update_policy"})
    \/ typed_getter(t)
    \/ delete_config(t)
    \/ ConfigHelper_create_default_tables(t)

NextLive == \E t \in Threads : ThreadLive(t)

\* a thread at "with lock:" (it has called an operation, or it is delete_config
\* before its create_default_tables)
AtLock(t) == pc[t] \in {"waiting", "between"}

\* a thread inside a with-block goes on; a fair lock lets every thread that
\* waits for it in
Fairness ==
    \A t \in Threads :
        /\ WF_vars(pc[t] \notin {"idle", "waiting", "between"} /\ ThreadLive(t))
        /\ SF_vars(AtLock(t) /\ ThreadLive(t))

SpecLive == Init /\ [][NextLive]_vars /\ Fairness

\* the throttle rate and one other key: set, set to None, read and reset
ThrottleRates == {NoneArg, "0", "2"}

NextThrottle ==
    \E t \in Threads :
        \/ set_throttle_rate(t, ThrottleRates)
        \/ _set(t, {"throttle_rate", "telemetry"}, {"2"})
        \/ GetCall(t, "get_throttle_rate", "throttle_rate")
        \/ GetCall(t, "get_telemetry", "telemetry")
        \/ delete_config(t)

SpecThrottle == Init /\ [][NextThrottle]_vars

\* the updater entry points beside threads that set the update policy
NextUpdate ==
    \/ \E t \in Threads : _set(t, {"update_policy"}, PolicyValues)
    \/ check_versions
    \/ read_policy
    \/ run_commands

SpecUpdate == Init /\ [][NextUpdate]_vars

\* every operation of both classes, the writers on one record and one key
OneFile == {f \in Files : f.file_id = 1 /\ f.name = "slides.pdf"}

Next ==
    \E t \in Threads :
        \/ add_pre_container(t, OneFile)
        \/ delete_by_file_id(t, {1})
        \/ add_course(t, Courses)
        \/ get_name_by_checksum(t, Checksums)
        \/ get_course_id_by_name(t, {c.name : c \in Courses})
        \/ get_checksums_per_course(t)
        \/ get_size_from_file_id(t, {1})
        \/ get_course_name_and_ids(t)
        \/ get_state(t)
        \/ DatabaseHelper_create_default_tables(t)
        \/ _set(t, {"update_policy"}, Values)
        \/ _get(t, {"update_policy"})
        \/ typed_getter(t)
        \/ delete_config(t)
        \/ ConfigHelper_create_default_tables(t)

Spec == Init /\ [][Next]_vars

----------------------------------------------------------------------------
(* Claims *)

\* the operations whose statement reads or writes the config table
ConfigOps == {"_set", "_get", "delete_config"} \cup Getters

\* C1: delete_config is atomic under the lock: no operation of ConfigHelper is
\* ever about to execute its statement while the config table does not exist,
\* and none fails with the missing-table error.
C1_DeleteConfigAtomic ==
    \A t \in Threads :
        /\ (pc[t] = "locked" /\ op[t].name \in ConfigOps) => "config" \in tables
        /\ ret[t].kind # "raise"

\* the positions inside a with-block of the lock
InWith == {"locked", "executed", "committed", "failed", "dropped", "relocked",
           "created"}

\* C2: mutual exclusion: a thread inside the with-block of any operation of
\* DatabaseHelper or ConfigHelper (at, between or after its statements, commit
\* included) holds the one lock, so at most one thread is executing statements.
C2_MutualExclusion ==
    /\ \A t \in Threads : pc[t] \in InWith => lock = t
    /\ Cardinality({t \in Threads : pc[t] \in InWith}) <= 1

\* a DatabaseHelper writer is inside its with-block while a ConfigHelper
\* operation of another thread is under way
C2_Witness ==
    \E t, u \in Threads :
        /\ t # u
        /\ At(t, "executed", "add_pre_container")
        /\ At(u, "between", "delete_config")

\* the record r is stored as row: every field as passed, the time as the whole
\* seconds of its timestamp
StoredAs(row, r) ==
    /\ row.name = r.name
    /\ row.file_id = r.file_id
    /\ row.url = r.url
    /\ row.time * 1000 <= r.time /\ r.time < (row.time + 1) * 1000
    /\ row.course_id = r.course_id
    /\ row.checksum = r.checksum
    /\ row.size = r.size

\* C3: fileinfo holds at most one row per file_id, and the row of a file_id is
\* the record of the latest add_pre_container with that file_id.
C3_OneRowPerFileId ==
    /\ \A i, j \in 1..Len(fileinfo) :
          fileinfo[i].file_id = fileinfo[j].file_id => i = j
    /\ \A i \in 1..Len(fileinfo) :
          /\ lastUpsert[fileinfo[i].file_id] # NoRow
          /\ StoredAs(fileinfo[i], lastUpsert[fileinfo[i].file_id])

\* an upsert has just replaced a row of its file_id by a different record,
\* next to the row of another file_id
C3_Witness ==
    \E t \in Threads :
        /\ At(t, "executed", "add_pre_container")
        /\ replaced # NoRow
        /\ replaced # op[t].file
        /\ Len(fileinfo) >= 2

\* C4: when every thread has upserted one record, the file_ids all different,
\* and every call has returned, fileinfo holds the record of every thread.
C4_AllUpsertsPersist ==
    (\A t \in Threads : pc[t] = "done") =>
        \A t \in Threads :
            \E i \in 1..Len(fileinfo) : StoredAs(fileinfo[i], op[t].file)

\* all calls have returned and there is one row per thread
C4_Witness ==
    /\ \A t \in Threads : pc[t] = "done"
    /\ Len(fileinfo) = NumThreads

\* the positions in upsertOrder of the records whose checksum is c
WithChecksum(c) ==
    {i \in 1..Len(upsertOrder) : lastUpsert[upsertOrder[i]].checksum = c}

Max(S) == CHOOSE x \in S : \A y \in S : y <= x
Min(S) == CHOOSE x \in S : \A y \in S : x <= y

\* C5 as claimed: get_name_by_checksum(c) returns the name of the most recently
\* upserted row with checksum c, and None when there is none.
C5_MostRecentByChecksum ==
    \A t \in Threads :
        At(t, "executed", "get_name_by_checksum") =>
            LET at == WithChecksum(op[t].key)
            IN  ret[t] = IF at = {} THEN PyNone
                         ELSE PyStr(lastUpsert[upsertOrder[Max(at)]].name)

\* C5 amended: get_name_by_checksum(c) returns the name of the row with
\* checksum c whose upsert is the earliest among the rows now in the table, and
\* None when no row has checksum c.
C5_EarliestByChecksum ==
    \A t \in Threads :
        At(t, "executed", "get_name_by_checksum") =>
            LET at == WithChecksum(op[t].key)
            IN  ret[t] = IF at = {} THEN PyNone
                         ELSE PyStr(lastUpsert[upsertOrder[Min(at)]].name)

\* a lookup by a checksum that two rows with different names share
C5_Witness ==
    \E t \in Threads :
        /\ At(t, "executed", "get_name_by_checksum")
        /\ \E i, j \in WithChecksum(op[t].key) :
              /\ i < j
              /\ lastUpsert[upsertOrder[i]].name # lastUpsert[upsertOrder[j]].name
              /\ ret[t] = PyStr(lastUpsert[upsertOrder[i]].name)

\* no record other than that of file_id f has checksum c
Unshared(c, f) ==
    \A g \in FileIds \ {f} : lastUpsert[g] = NoRow \/ lastUpsert[g].checksum # c

\* a lookup returns the name of a row that is in the table
LookupOfLiveRow ==
    \A t \in Threads :
        (At(t, "executed", "get_name_by_checksum") /\ ret[t].kind = "str") =>
            \E f \in FileIds :
                /\ lastUpsert[f] # NoRow
                /\ lastUpsert[f].checksum = op[t].key
                /\ lastUpsert[f].name = ret[t].str

\* the upsert of thread t has replaced a row of checksum c by one of another
\* checksum, and no other row has checksum c
ReplacedChecksum(t) ==
    /\ At(t, "executed", "add_pre_container")
    /\ replaced # NoRow
    /\ replaced.checksum # op[t].file.checksum
    /\ Unshared(replaced.checksum, op[t].file.file_id)

\* C6 as claimed: after such an upsert the lookup of c is None and the lookup
\* of the new checksum c2 returns the upserted name; a lookup never returns a
\* replaced or deleted row.
C6_ReplacedChecksum ==
    /\ \A t \in Threads :
          ReplacedChecksum(t) =>
              /\ _get_attr_by_equal(fileinfo, "name", replaced.checksum, "checksum")
                    = PyNone
              /\ _get_attr_by_equal(fileinfo, "name", op[t].file.checksum, "checksum")
                    = PyStr(op[t].file.name)
    /\ LookupOfLiveRow

\* C6 amended: the same, when no other row has the new checksum c2 either.
C6_ReplacedChecksumUnshared ==
    /\ \A t \in Threads :
          (ReplacedChecksum(t)
             /\ Unshared(op[t].file.checksum, op[t].file.file_id)) =>
              /\ _get_attr_by_equal(fileinfo, "name", replaced.checksum, "checksum")
                    = PyNone
              /\ _get_attr_by_equal(fileinfo, "name", op[t].file.checksum, "checksum")
                    = PyStr(op[t].file.name)
    /\ LookupOfLiveRow

\* a row was replaced by one of a new checksum, next to a row of a third one
C6_Witness ==
    \E t \in Threads :
        /\ ReplacedChecksum(t)
        /\ Unshared(op[t].file.checksum, op[t].file.file_id)
        /\ Len(fileinfo) >= 2

\* the defaults the typed getters document
Documented(g) ==
    CASE g = "get_update_policy" -> PyStr("0")
      [] g = "get_telemetry" -> PyStr("1")
      [] g = "get_filename_scheme" -> PyStr("0")
      [] OTHER -> PyNone

\* C7: a typed getter with a default returns the default only when its key has
\* no row; when the key is set to any value, the empty string included, it
\* reports the stored value.
C7_DefaultOnlyOnAbsence ==
    \A t \in Threads :
        (pc[t] = "executed" /\ op[t].name \in DefaultGetters) =>
            LET v == lastSet[op[t].key]
            IN  IF v = Absent THEN ret[t] = Documented(op[t].name)
                ELSE IF op[t].name = "get_throttle_rate" THEN ret[t] = StrToInt(v)
                ELSE ret[t] = PyStr(v)

\* C8: _get(k) returns the value of the latest _set(k, .) since the last DROP,
\* and None iff config has no row for k; config holds, for every key, exactly
\* the row of its latest _set, so a _set changes no other key.
C8_GetSetRoundTrip ==
    /\ \A t \in Threads :
          At(t, "executed", "_get") =>
              ret[t] = IF lastSet[op[t].key] = Absent THEN PyNone
                       ELSE PyStr(lastSet[op[t].key])
    /\ \A k \in Keys :
          {r \in config : r[1] = k}
              = IF lastSet[k] = Absent THEN {} ELSE {<<k, lastSet[k]>>}
    /\ \A t \in Threads :
          At(t, "executed", "_get") =>
              (ret[t] = PyNone <=> {r \in config : r[1] = op[t].key} = {})

\* _get returns "2", the value set last, while another key holds ""
C8_Witness ==
    \E t \in Threads :
        /\ At(t, "executed", "_get")
        /\ ret[t] = PyStr("2")
        /\ \E k \in Keys \ {op[t].key} : lastSet[k] = ""

\* C9: when delete_config has recreated the table and no _set ran since its
\* DROP, config exists and is empty and every typed getter yields its default;
\* a typed getter that runs while no _set happened since the last DROP returns
\* its default.
C9_DefaultsAfterDeleteConfig ==
    /\ \A t \in Threads :
          (At(t, "created", "delete_config")
             /\ sinceDrop[t] \in {"empty", "rows"}) =>
              /\ "config" \in tables
              /\ config = {}
              /\ \A g \in Getters :
                    TypedResult(g, SelectValue(config, GetterKey[g]))
                        = Documented(g)
    /\ \A u \in Threads :
          (/\ pc[u] = "executed"
           /\ op[u].name \in Getters
           /\ \A k \in Keys : lastSet[k] = Absent) =>
              ret[u] = Documented(op[u].name)

\* delete_config has dropped a table that held settings and recreated it
C9_Witness ==
    \E t \in Threads : At(t, "created", "delete_config") /\ sinceDrop[t] = "rows"

\* C10: on an existing, empty config table every typed getter returns its
\* documented default and does not raise; a lookup of fileinfo or courseinfo
\* that matches no row returns None and does not raise.
C10_NoRaiseOnAbsence ==
    \A t \in Threads :
        /\ (/\ op[t].name \in Getters
            /\ pc[t] \in {"executed", "failed"}
            /\ "config" \in tables
            /\ config = {}) => ret[t] = Documented(op[t].name)
        /\ (/\ op[t].name = "get_name_by_checksum"
            /\ pc[t] \in {"executed", "failed"}
            /\ WithChecksum(op[t].key) = {}) => ret[t] = PyNone
        /\ (/\ op[t].name = "get_size_from_file_id"
            /\ pc[t] \in {"executed", "failed"}
            /\ lastUpsert[op[t].id] = NoRow) => ret[t] = PyNone
        /\ (/\ op[t].name = "get_course_id_by_name"
            /\ pc[t] \in {"executed", "failed"}
            /\ \A i \in 1..Len(courseinfo) : courseinfo[i].name # op[t].key)
                => ret[t] = PyNone

\* get_telemetry has returned "1" from an existing, empty table
C10_Witness ==
    \E t \in Threads :
        /\ At(t, "executed", "get_telemetry")
        /\ "config" \in tables
        /\ config = {}
        /\ ret[t] = PyStr("1")

\* the positions in courseinfo of the rows of course_id c
RowsOfCourse(c) == {i \in 1..Len(courseinfo) : courseinfo[i].id = c}

\* C11: add_course is idempotent and the first registration wins: courseinfo
\* has exactly one row for every course_id ever registered, with the name of
\* its first registration, and none for the others; an add_course for a
\* course_id that is registered leaves courseinfo as it is; no operation
\* changes or removes the row of a registered course_id.
C11_FirstRegistrationWins ==
    /\ [](\A c \in RegisteredIds :
            IF registered[c] = Absent THEN RowsOfCourse(c) = {}
            ELSE /\ Cardinality(RowsOfCourse(c)) = 1
                 /\ \A i \in RowsOfCourse(c) : courseinfo[i].name = registered[c])
    /\ [][\A t \in Threads :
            (At(t, "locked", "add_course") /\ registered[op[t].id] # Absent)
                => courseinfo' = courseinfo]_vars
    /\ [][\A i \in 1..Len(courseinfo) :
            i <= Len(courseinfo') /\ courseinfo'[i] = courseinfo[i]]_vars

\* an add_course with another name for a registered course_id has executed
C11_Witness ==
    \E t \in Threads :
        /\ At(t, "executed", "add_course")
        /\ registered[op[t].id] # op[t].key
        /\ Len(courseinfo) = 2

\* the checksums of the fileinfo rows of course_id c
ChecksumsOfCourse(c) ==
    {fileinfo[i].checksum : i \in {j \in 1..Len(fileinfo) : fileinfo[j].course_id = c}}

\* what the returned defaultdict(set) gives for a course name
ValueAt(d, n) == IF n \in DOMAIN d THEN d[n] ELSE {}

\* C12: get_checksums_per_course returns, for every registered course,
\* exactly the checksums of the fileinfo rows of that course's id, also when
\* two registered courses have the same name, and nothing for rows whose
\* course_id is not registered.
C12_ExactPerCourse ==
    \A t \in Threads :
        At(t, "executed", "get_checksums_per_course") =>
            LET d == ret[t].rows[1]
            IN  /\ \A c \in RegisteredIds :
                      registered[c] # Absent =>
                          ValueAt(d, registered[c]) = ChecksumsOfCourse(c)
                /\ \A n \in DOMAIN d : \E c \in RegisteredIds : registered[c] = n

\* the tables a create_default_tables creates
TablesOf ==
    [x \in {"DatabaseHelper.create_default_tables",
            "ConfigHelper.create_default_tables"} |->
        IF x = "ConfigHelper.create_default_tables" THEN {"config"}
        ELSE {"fileinfo", "courseinfo"}]

\* C13: create_default_tables is idempotent: on a store that has its tables
\* its statements do not raise and leave the set of tables as it is, and in
\* every case they leave the rows of fileinfo, courseinfo and config unchanged.
C13_CreateIdempotent ==
    [][\A t \in Threads :
          (pc[t] = "locked" /\ op[t].name \in DOMAIN TablesOf) =>
              /\ fileinfo' = fileinfo /\ courseinfo' = courseinfo /\ config' = config
              /\ TablesOf[op[t].name] \subseteq tables =>
                    /\ pc'[t] = "executed"
                    /\ ret'[t].kind # "raise"
                    /\ tables' = tables]_vars

\* both create_default_tables have run on a store that holds rows
C13_Witness ==
    /\ \E t \in Threads : At(t, "executed", "ConfigHelper.create_default_tables")
    /\ config # {} /\ fileinfo # <<>> /\ courseinfo # <<>>
    /\ tables = {"fileinfo", "courseinfo", "config"}

\* C14: threads that write the same file_id or the same config key
\* concurrently all return without an error, and once the lock is free the row
\* of the key is exactly what the call that acquired the lock last wrote.
C14_LastAcquirerWins ==
    /\ \A t \in Threads : ret[t].kind # "raise"
    /\ lock = NoThread =>
          /\ \A f \in FileIds :
                SelectSeq(fileinfo, LAMBDA r : r.file_id = f)
                    = IF lockedUpsert[f] = NoRow THEN <<>>
                      ELSE <<ToRow(lockedUpsert[f])>>
          /\ \A k \in Keys :
                {r \in config : r[1] = k}
                    = IF lockedSet[k] = Absent THEN {} ELSE {<<k, lockedSet[k]>>}

\* a record with other fields and a value of the same key have been overwritten
C14_Witness ==
    /\ \E t \in Threads :
          /\ At(t, "committed", "add_pre_container")
          /\ replaced # NoRow
          /\ replaced.name # op[t].file.name
          /\ replaced.checksum # op[t].file.checksum
          /\ fileinfo = <<ToRow(op[t].file)>>
          /\ lockedUpsert[1] = op[t].file
    /\ config = {<<"update_policy", "2">>}
    /\ lastSet["update_policy"] = "2"

\* C15: every mutating operation has committed before it releases the lock:
\* whenever the lock is free no connection holds an uncommitted write.
C15_CommittedBeforeRelease ==
    lock = NoThread => pending \cap {"db", "cfg"} = {}

\* C16: add_pre_container returns whether a row with the same file_id
\* existed before the call: true iff a row was replaced, false iff the row is
\* new.
C16_ReturnsWhetherReplaced ==
    \A t \in Threads :
        At(t, "committed", "add_pre_container") =>
            ret[t] = PyBool(replaced # NoRow)

\* C16, amended: add_pre_container returns None, whether or not a row with
\* the same file_id existed before the call.
C16_ReturnsNone ==
    \A t \in Threads :
        (pc[t] \in {"executed", "committed"} /\ op[t].name = "add_pre_container")
            => ret[t] = PyNone

\* an add_pre_container that replaced a row is about to return
C16_Witness ==
    \E t \in Threads :
        /\ At(t, "committed", "add_pre_container")
        /\ replaced # NoRow
        /\ replaced.file_id = op[t].file.file_id

\* the statement of a delete_by_file_id of thread t runs in this step
Deletes(t) == At(t, "locked", "delete_by_file_id") /\ pc'[t] # "locked"

\* what the delete leaves apart from fileinfo, and that it does not raise
DeleteFrame(t) ==
    /\ courseinfo' = courseinfo /\ config' = config /\ tables' = tables
    /\ pc'[t] = "executed" /\ ret'[t].kind # "raise"

C18_SizeOfFileId ==
    \A t \in Threads :
        At(t, "executed", "get_size_from_file_id") =>
            ret[t] = IF lastUpsert[op[t].id] = NoRow THEN PyNone
                     ELSE PyInt(lastUpsert[op[t].id].size)

\* the size of a file_id upserted twice with different sizes has been looked
\* up while another file_id has a row of another size
C18_Witness ==
    \E t \in Threads :
        /\ At(t, "executed", "get_size_from_file_id")
        /\ ret[t] = PyInt(2048)
        /\ fileinfo[Len(fileinfo)].file_id = op[t].id
        /\ \E i \in 1..Len(fileinfo) :
              fileinfo[i].file_id # op[t].id /\ fileinfo[i].size = 1024

\* the lookups and enumerations of both classes
LookupOps ==
    {"get_course_id_by_name", "get_course_name_and_ids", "get_name_by_checksum",
     "get_size_from_file_id", "get_checksums_per_course", "get_state", "_get"}
        \cup Getters

\* C19: the lookups and enumerations are read-only: no step of such a call,
\* from taking the lock to returning, changes the rows of fileinfo, courseinfo
\* or config (or the set of tables).
C19_LookupsReadOnly ==
    [][\A t \in Threads :
          (pc'[t] # pc[t] /\ (op[t].name \in LookupOps \/ op'[t].name \in LookupOps))
              => /\ fileinfo' = fileinfo
                 /\ courseinfo' = courseinfo
                 /\ config' = config
                 /\ tables' = tables]_vars

\* get_state has read a store in which the three tables hold rows
C19_Witness ==
    \E t \in Threads :
        /\ At(t, "executed", "get_state")
        /\ fileinfo # <<>> /\ courseinfo # <<>> /\ config # {}
        /\ ret[t] = PyRows(<<fileinfo, courseinfo, config>>)

\* the value status_time has in production in the environment of the load
ProductionStatusTime ==
    ApplyConfigFile(environment, Defaults(environment))["status_time"]

\* C20: loaded under pytest, the settings module has working_dir_location
\* redirected to ~/test_isisdl, which differs from the production directory,
\* keeps the production directory ~/isisdl_downloads as _working_dir_location
\* and keeps the production value of status_time as _status_time.
C20_TestDirectories ==
    (loading = "loaded" /\ environment.pytest) =>
        /\ _globs["working_dir_location"] = PathVal(Join(Home, "test_isisdl"))
        /\ _globs["working_dir_location"] # _globs["_working_dir_location"]
        /\ _globs["_working_dir_location"] = PathVal(Join(Home, "isisdl_downloads"))
        /\ _globs["_status_time"] = ProductionStatusTime

\* C21: no operation acquires the lock while it holds it, every operation
\* releases the lock on every path, so under a fair lock every thread that has
\* called an operation returns (or raises): it is outside every operation
\* again and again.
C21_Progress ==
    /\ [](\A t \in Threads : AtLock(t) => lock # t)
    /\ [](\A t \in Threads : pc[t] = "idle" => lock # t)
    /\ \A t \in Threads : []<>(pc[t] = "idle")

\* a thread waits for the lock that delete_config of another thread has
\* released after its DROP and taken again
C21_Witness ==
    \E t, u \in Threads :
        /\ pc[t] = "waiting"
        /\ At(u, "relocked", "delete_config")
        /\ lock = u

\* C22: when the update policy is "0" (stored, or the default of a store
\* without one), install_latest_version and main return without running a
\* git clone or pip install, whatever versions GitHub and PyPI report.
C22_DisabledNeverInstalls ==
    (updater.at \in {"policy", "returned", "raised"} /\ updater.got = "0")
        => invoked = <<>>

\* what get_throttle_rate returns for the value last stored
RateOf(v) == IF v = Absent THEN PyNone ELSE StrToInt(v)

\* C23: set_throttle_rate(None) writes nothing and changes no key, so the
\* rate stored before stays in effect until delete_config; a rate that is
\* set (the text of an integer) is what get_throttle_rate returns, as an int.
C23_ThrottleRate ==
    /\ [](\A r \in config : r[2] # NoneArg)
    /\ [](\A t \in Threads :
            At(t, "executed", "get_throttle_rate") =>
                /\ ret[t] = RateOf(lastSet["throttle_rate"])
                /\ ret[t].kind \in {"int", "None"})
    /\ [][\A t \in Threads :
            (pc'[t] # pc[t] /\ "skipped" \in {pc[t], pc'[t]}) =>
                /\ config' = config /\ tables' = tables
                /\ pending' = pending /\ lock' = lock]_vars

\* a rate is stored, a set_throttle_rate(None) is under way and
\* get_throttle_rate has returned the stored rate
C23_Witness ==
    \E t, u \in Threads :
        /\ At(t, "skipped", "set_throttle_rate")
        /\ op[t].val = NoneArg
        /\ At(u, "executed", "get_throttle_rate")
        /\ ret[u] = PyInt(2)
        /\ <<"throttle_rate", "2">> \in config

====
